---- MODULE Spec2Model ----
(***************************************************************************)
(* A model of the diabete-rag repository: the text cleaner                 *)
(* (text_cleaner.py), the embedding / LLM managers (embedding_manager.py,  *)
(* llm.py), the index builder/loader (documents.py) and the entry points   *)
(* (main.py, app.py).                                                      *)
(*                                                                         *)
(* A text is a sequence of characters.  A character is a one-character     *)
(* string, except for the code points that have no ASCII spelling, which   *)
(* are named: "nbsp" U+00A0, "lsquo" U+2018, "rsquo" U+2019, "ldquo"       *)
(* U+201C, "rdquo" U+201D, "ndash" U+2013, "mdash" U+2014, "hellip"        *)
(* U+2026, "ctl" U+0001, "e_grave" U+00E8, "e_acute" U+00E9.               *)
(***************************************************************************)
EXTENDS Integers, Sequences, FiniteSets, TLC

\* ------------------------------------------------------------------------
\* Characters and character classes (Python 3 str semantics of re and str)
\* ------------------------------------------------------------------------

LowerSeq ==
    << "a", "b", "c", "d", "e", "f", "g", "h", "i", "j", "k", "l", "m",
       "n", "o", "p", "q", "r", "s", "t", "u", "v", "w", "x", "y", "z" >>

UpperSeq ==
    << "A", "B", "C", "D", "E", "F", "G", "H", "I", "J", "K", "L", "M",
       "N", "O", "P", "Q", "R", "S", "T", "U", "V", "W", "X", "Y", "Z" >>

LowerLetters == {LowerSeq[k] : k \in 1..Len(LowerSeq)}

UpperLetters == {UpperSeq[k] : k \in 1..Len(UpperSeq)}

Letters == LowerLetters \cup UpperLetters

Digits == {"0", "1", "2", "3", "4", "5", "6", "7", "8", "9"}

AccentedLetters == {"e_grave", "e_acute"}

\* \w
WordChars == Letters \cup Digits \cup {"_"} \cup AccentedLetters

\* \s, and what str.strip() strips
SpaceChars == {" ", "\t", "\n", "\r", "\f", "nbsp"}

\* [\x00-\x08\x0b-\x0c\x0e-\x1f\x7f-\x9f]
ControlChars == {"ctl", "\f"}

\* str.lower() / re.IGNORECASE on one character
ToLower(c) ==
    IF c \in UpperLetters
    THEN LowerSeq[CHOOSE k \in 1..Len(UpperSeq) : UpperSeq[k] = c]
    ELSE c

Lower(s) == [k \in 1..Len(s) |-> ToLower(s[k])]

Max(S) == CHOOSE x \in S : \A y \in S : y <= x

Min(S) == CHOOSE x \in S : \A y \in S : x <= y

\* The index after the longest run of characters of S that starts at i.
RunEnd(s, i, S) ==
    LET stops == {j \in i..Len(s) : s[j] \notin S}
    IN  IF stops = {} THEN Len(s) + 1 ELSE Min(stops)

\* s[i .. j-1]
Slice(s, i, j) == SubSeq(s, i, j - 1)

\* re.sub scans for the leftmost match: the first position from i on where
\* a match starts, Len(s) + 1 when there is none.
FirstMatch(s, starts) == IF starts = {} THEN Len(s) + 1 ELSE Min(starts)

\* \b at the position between s[p-1] and s[p]
Boundary(s, p) ==
    (p >= 2 /\ s[p - 1] \in WordChars) # (p <= Len(s) /\ s[p] \in WordChars)

\* str.strip()
Strip(s) ==
    LET keep == {j \in 1..Len(s) : s[j] \notin SpaceChars}
    IN  IF keep = {} THEN << >> ELSE SubSeq(s, Min(keep), Max(keep))

\* str.split('\n')
RECURSIVE SplitLines(_)
SplitLines(s) ==
    LET nl == {j \in 1..Len(s) : s[j] = "\n"}
    IN  IF nl = {}
        THEN << s >>
        ELSE << SubSeq(s, 1, Min(nl) - 1) >>
                 \o SplitLines(SubSeq(s, Min(nl) + 1, Len(s)))

\* '\n'.join(lines)
RECURSIVE JoinLines(_)
JoinLines(lines) ==
    IF lines = << >> THEN << >>
    ELSE IF Len(lines) = 1 THEN lines[1]
    ELSE lines[1] \o << "\n" >> \o JoinLines(Tail(lines))

\* ------------------------------------------------------------------------
\* TextCleaner.clean_special_characters
\* ------------------------------------------------------------------------

Replacement(c) ==
    CASE c = "nbsp" -> << " " >>
      [] c \in {"lsquo", "rsquo"} -> << "'" >>
      [] c \in {"ldquo", "rdquo"} -> << "\"" >>
      [] c \in {"ndash", "mdash"} -> << "-" >>
      [] c = "hellip" -> << ".", ".", "." >>
      [] OTHER -> << c >>

RECURSIVE ReplaceChars(_)
ReplaceChars(s) ==
    LET hits == {j \in 1..Len(s) : Replacement(s[j]) # << s[j] >>}
    IN  IF hits = {}
        THEN s
        ELSE SubSeq(s, 1, Min(hits) - 1) \o Replacement(s[Min(hits)])
                 \o ReplaceChars(SubSeq(s, Min(hits) + 1, Len(s)))

IsPrintable(c) == c \notin ControlChars

clean_special_characters(text) == SelectSeq(ReplaceChars(text), IsPrintable)

\* ------------------------------------------------------------------------
\* TextCleaner.fix_hyphenation:  re.sub(r'(\w+)-\s*\n\s*(\w+)', r'\1\2')
\* ------------------------------------------------------------------------

\* The end of the match that starts at i, 0 when there is none.
HyphenMatchEnd(s, i) ==
    LET we  == RunEnd(s, i, WordChars)
        wse == RunEnd(s, we + 1, SpaceChars)
    IN  IF /\ we > i
           /\ we <= Len(s)
           /\ s[we] = "-"
           /\ \E j \in (we + 1)..(wse - 1) : s[j] = "\n"
           /\ wse <= Len(s)
           /\ s[wse] \in WordChars
        THEN RunEnd(s, wse, WordChars)
        ELSE 0

HyphenJoined(s, i) ==
    LET we  == RunEnd(s, i, WordChars)
        wse == RunEnd(s, we + 1, SpaceChars)
    IN  Slice(s, i, we) \o Slice(s, wse, RunEnd(s, wse, WordChars))

RECURSIVE FixHyphenFrom(_, _)
FixHyphenFrom(s, i) ==
    LET j == FirstMatch(s, {k \in i..Len(s) : HyphenMatchEnd(s, k) > 0})
    IN  IF j > Len(s)
        THEN Slice(s, i, Len(s) + 1)
        ELSE Slice(s, i, j) \o HyphenJoined(s, j)
                 \o FixHyphenFrom(s, HyphenMatchEnd(s, j))

fix_hyphenation(text) == FixHyphenFrom(text, 1)

\* ------------------------------------------------------------------------
\* TextCleaner.remove_page_numbers
\* ------------------------------------------------------------------------

\* r'^\s*\d+\s*$' with re.MULTILINE
PageLineMatchEnd(s, i) ==
    LET se  == RunEnd(s, i, SpaceChars)
        de  == RunEnd(s, se, Digits)
        e2  == RunEnd(s, de, SpaceChars)
        nls == {p \in de..(e2 - 1) : s[p] = "\n"}
    IN  IF (i = 1 \/ s[i - 1] = "\n") /\ de > se
        THEN IF e2 = Len(s) + 1 THEN e2
             ELSE IF nls # {} THEN Max(nls) ELSE 0
        ELSE 0

\* r'\b[Pp]age\s+\d+\b'
PageWordMatchEnd(s, i) ==
    LET se == RunEnd(s, i + 4, SpaceChars)
        de == RunEnd(s, se, Digits)
    IN  IF /\ Boundary(s, i)
           /\ i + 3 <= Len(s)
           /\ s[i] \in {"P", "p"}
           /\ s[i + 1] = "a" /\ s[i + 2] = "g" /\ s[i + 3] = "e"
           /\ se > i + 4
           /\ de > se
           /\ Boundary(s, de)
        THEN de
        ELSE 0

\* r'\bp\.\s*\d+\b'
PageAbbrevMatchEnd(s, i) ==
    LET se == RunEnd(s, i + 2, SpaceChars)
        de == RunEnd(s, se, Digits)
    IN  IF /\ Boundary(s, i)
           /\ i + 1 <= Len(s)
           /\ s[i] = "p"
           /\ s[i + 1] = "."
           /\ de > se
           /\ Boundary(s, de)
        THEN de
        ELSE 0

RECURSIVE RemovePageLinesFrom(_, _)
RemovePageLinesFrom(s, i) ==
    LET j == FirstMatch(s, {k \in i..Len(s) : PageLineMatchEnd(s, k) > 0})
    IN  IF j > Len(s)
        THEN Slice(s, i, Len(s) + 1)
        ELSE Slice(s, i, j)
                 \o RemovePageLinesFrom(s, PageLineMatchEnd(s, j))

RECURSIVE RemovePageWordsFrom(_, _)
RemovePageWordsFrom(s, i) ==
    LET j == FirstMatch(s, {k \in i..Len(s) : PageWordMatchEnd(s, k) > 0})
    IN  IF j > Len(s)
        THEN Slice(s, i, Len(s) + 1)
        ELSE Slice(s, i, j)
                 \o RemovePageWordsFrom(s, PageWordMatchEnd(s, j))

RECURSIVE RemovePageAbbrevsFrom(_, _)
RemovePageAbbrevsFrom(s, i) ==
    LET j == FirstMatch(s, {k \in i..Len(s) : PageAbbrevMatchEnd(s, k) > 0})
    IN  IF j > Len(s)
        THEN Slice(s, i, Len(s) + 1)
        ELSE Slice(s, i, j)
                 \o RemovePageAbbrevsFrom(s, PageAbbrevMatchEnd(s, j))

remove_page_numbers(text) ==
    RemovePageAbbrevsFrom(
        RemovePageWordsFrom(RemovePageLinesFrom(text, 1), 1), 1)

\* ------------------------------------------------------------------------
\* TextCleaner.remove_headers_footers
\* ------------------------------------------------------------------------

\* A header/footer candidate is shorter than this many characters.
HeaderMaxLen == 100

\* The default of min_repetition.
DefaultMinRepetition == 3

\* a step that counts the lines of any length
IsHeaderCandidateAnyLength(cleaned_line) == cleaned_line # << >>

IsHeaderCandidate(cleaned_line) ==
    cleaned_line # << >> /\ Len(cleaned_line) < HeaderMaxLen

remove_headers_footers(text, min_repetition) ==
    LET lines == SplitLines(text)
        line_count(l) ==
            Cardinality({k \in 1..Len(lines) : Strip(lines[k]) = l})
        repetitive_lines ==
            {Strip(lines[k]) : k \in
                {j \in 1..Len(lines) :
                    /\ IsHeaderCandidate(Strip(lines[j]))
                    /\ line_count(Strip(lines[j])) >= min_repetition}}
        Kept(line) == Strip(line) \notin repetitive_lines
    IN  JoinLines(SelectSeq(lines, Kept))

\* ------------------------------------------------------------------------
\* TextCleaner.remove_urls_and_emails
\* ------------------------------------------------------------------------

\* [a-zA-Z] | [0-9] | [$-_@.&+] | [!*\\(\\),]   ($-_ is the range 0x24-0x5F)
UrlChars ==
    Letters \cup Digits \cup
    {"$", "%", "&", "'", "(", ")", "*", "+", ",", "-", ".", "/", ":", ";",
     "<", "=", ">", "?", "@", "[", "\\", "]", "^", "_", "!"}

HasAt(s, i, lit) ==
    /\ i + Len(lit) - 1 <= Len(s)
    /\ \A k \in 1..Len(lit) : s[i + k - 1] = lit[k]

\* r'http[s]?://(?:...)+'
UrlMatchEnd(s, i) ==
    LET p == IF i + 4 <= Len(s) /\ s[i + 4] = "s" THEN i + 5 ELSE i + 4
        e == RunEnd(s, p + 3, UrlChars)
    IN  IF /\ HasAt(s, i, << "h", "t", "t", "p" >>)
           /\ HasAt(s, p, << ":", "/", "/" >>)
           /\ e > p + 3
        THEN e
        ELSE 0

EmailLocalChars == Letters \cup Digits \cup {".", "_", "%", "+", "-"}

EmailDomainChars == Letters \cup Digits \cup {".", "-"}

\* [A-Z|a-z]
EmailTldChars == Letters \cup {"|"}

\* r'\b[A-Za-z0-9._%+-]+@[A-Za-z0-9.-]+\.[A-Z|a-z]{2,}\b': the domain part is
\* matched greedily (the last possible dot), then the longest top-level part
\* that ends at a word boundary.
EmailMatchEnd(s, i) ==
    LET le == RunEnd(s, i, EmailLocalChars)
        de == RunEnd(s, le + 1, EmailDomainChars)
        cands ==
            {c \in ((le + 2)..(de - 1)) \X ((le + 5)..(Len(s) + 1)) :
                /\ s[c[1]] = "."
                /\ c[2] >= c[1] + 3
                /\ \A q \in (c[1] + 1)..(c[2] - 1) : s[q] \in EmailTldChars
                /\ Boundary(s, c[2])}
        kmax == Max({c[1] : c \in cands})
    IN  IF /\ Boundary(s, i)
           /\ le > i
           /\ le <= Len(s)
           /\ s[le] = "@"
           /\ cands # {}
        THEN Max({c[2] : c \in {d \in cands : d[1] = kmax}})
        ELSE 0

RECURSIVE RemoveUrlsFrom(_, _)
RemoveUrlsFrom(s, i) ==
    LET j == FirstMatch(s, {k \in i..Len(s) : UrlMatchEnd(s, k) > 0})
    IN  IF j > Len(s)
        THEN Slice(s, i, Len(s) + 1)
        ELSE Slice(s, i, j)
                 \o RemoveUrlsFrom(s, UrlMatchEnd(s, j))

RECURSIVE RemoveEmailsFrom(_, _)
RemoveEmailsFrom(s, i) ==
    LET j == FirstMatch(s, {k \in i..Len(s) : EmailMatchEnd(s, k) > 0})
    IN  IF j > Len(s)
        THEN Slice(s, i, Len(s) + 1)
        ELSE Slice(s, i, j)
                 \o RemoveEmailsFrom(s, EmailMatchEnd(s, j))

remove_urls_and_emails(text) == RemoveEmailsFrom(RemoveUrlsFrom(text, 1), 1)

\* ------------------------------------------------------------------------
\* TextCleaner.normalize_medical_terms
\* ------------------------------------------------------------------------

\* 'diabète de type 1', 'diabète de type 2'
DiabeteDeType(n) ==
    << "d", "i", "a", "b", "e_grave", "t", "e", " ", "d", "e", " ",
       "t", "y", "p", "e", " ", n >>

\* 'hémoglobine glyquée'
HemoglobineGlyquee ==
    << "h", "e_acute", "m", "o", "g", "l", "o", "b", "i", "n", "e", " ",
       "g", "l", "y", "q", "u", "e_acute", "e" >>

\* 'indice de masse corporelle'
IndiceDeMasseCorporelle ==
    << "i", "n", "d", "i", "c", "e", " ", "d", "e", " ", "m", "a", "s", "s",
       "e", " ", "c", "o", "r", "p", "o", "r", "e", "l", "l", "e" >>

\* The replacements dict, in its order: <<abbreviation, full form>>.
MedicalReplacements ==
    << << << "D", "T", "1" >>, DiabeteDeType("1") >>,
       << << "D", "T", "2" >>, DiabeteDeType("2") >>,
       << << "H", "b", "A", "1", "c" >>, HemoglobineGlyquee >>,
       << << "I", "M", "C" >>, IndiceDeMasseCorporelle >> >>

\* a pattern compiled without re.IGNORECASE
TermMatchesAtSameCase(s, i, abbr) ==
    /\ Boundary(s, i)
    /\ i + Len(abbr) - 1 <= Len(s)
    /\ \A k \in 1..Len(abbr) : s[i + k - 1] = abbr[k]
    /\ Boundary(s, i + Len(abbr))

\* r'\b<abbr>\b' with re.IGNORECASE, at i
TermMatchesAt(s, i, abbr) ==
    /\ Boundary(s, i)
    /\ i + Len(abbr) - 1 <= Len(s)
    /\ \A k \in 1..Len(abbr) : ToLower(s[i + k - 1]) = ToLower(abbr[k])
    /\ Boundary(s, i + Len(abbr))

RECURSIVE ExpandTermFrom(_, _, _, _)
ExpandTermFrom(s, i, abbr, full) ==
    LET TermMatchEnd(t, p) == IF TermMatchesAt(t, p, abbr) THEN p + Len(abbr) ELSE 0
        j == FirstMatch(s, {k \in i..Len(s) : TermMatchEnd(s, k) > 0})
    IN  IF j > Len(s)
        THEN Slice(s, i, Len(s) + 1)
        ELSE Slice(s, i, j) \o full
                 \o ExpandTermFrom(s, j + Len(abbr), abbr, full)

RECURSIVE ExpandTerms(_, _)
ExpandTerms(s, k) ==
    IF k > Len(MedicalReplacements) THEN s
    ELSE ExpandTerms(
             ExpandTermFrom(s, 1, MedicalReplacements[k][1],
                            MedicalReplacements[k][2]),
             k + 1)

normalize_medical_terms(text) == ExpandTerms(text, 1)

\* ------------------------------------------------------------------------
\* TextCleaner.clean_whitespace
\* ------------------------------------------------------------------------

\* re.sub(r' +', ' ', text)
RECURSIVE CollapseSpacesFrom(_, _)
CollapseSpacesFrom(s, i) ==
    LET SpacesMatchEnd(t, p) == IF t[p] = " " THEN RunEnd(t, p, {" "}) ELSE 0
        j == FirstMatch(s, {k \in i..Len(s) : SpacesMatchEnd(s, k) > 0})
    IN  IF j > Len(s)
        THEN Slice(s, i, Len(s) + 1)
        ELSE Slice(s, i, j) \o << " " >>
                 \o CollapseSpacesFrom(s, RunEnd(s, j, {" "}))

\* r'\n\s*\n\s*\n+': from a newline to the last newline of the whitespace run
\* it starts, when the run holds at least three newlines.
NewlinesMatchEnd(s, i) ==
    LET nls == {p \in i..(RunEnd(s, i, SpaceChars) - 1) : s[p] = "\n"}
    IN  IF s[i] = "\n" /\ Cardinality(nls) >= 3 THEN Max(nls) + 1 ELSE 0

RECURSIVE CollapseNewlinesFrom(_, _)
CollapseNewlinesFrom(s, i) ==
    LET j == FirstMatch(s, {k \in i..Len(s) : NewlinesMatchEnd(s, k) > 0})
    IN  IF j > Len(s)
        THEN Slice(s, i, Len(s) + 1)
        ELSE Slice(s, i, j) \o << "\n", "\n" >>
                 \o CollapseNewlinesFrom(s, NewlinesMatchEnd(s, j))

StripLines(s) ==
    LET lines == SplitLines(s)
    IN  JoinLines([k \in 1..Len(lines) |-> Strip(lines[k])])

\* a cleaner that strips the lines but not the text
clean_whitespace_lines_only(text) ==
    StripLines(CollapseNewlinesFrom(CollapseSpacesFrom(text, 1), 1))

clean_whitespace(text) ==
    Strip(StripLines(CollapseNewlinesFrom(CollapseSpacesFrom(text, 1), 1)))

\* ------------------------------------------------------------------------
\* TextCleaner.clean_document (the text of the cleaned document)
\* ------------------------------------------------------------------------

CleanBeforeOptions(text, min_repetition) ==
    remove_headers_footers(
        remove_page_numbers(fix_hyphenation(clean_special_characters(text))),
        min_repetition)

\* the text after each of the four unconditional steps of clean_document
CleanSteps(text, min_repetition) ==
    LET t1 == clean_special_characters(text)
        t2 == fix_hyphenation(t1)
        t3 == remove_page_numbers(t2)
        t4 == remove_headers_footers(t3, min_repetition)
    IN  [special |-> t1, hyphen |-> t2, pages |-> t3, headers |-> t4]

clean_document(text, remove_urls, normalize_medical, min_repetition) ==
    LET t4 == CleanBeforeOptions(text, min_repetition)
        t5 == IF remove_urls THEN remove_urls_and_emails(t4) ELSE t4
        t6 == IF normalize_medical THEN normalize_medical_terms(t5) ELSE t5
    IN  clean_whitespace(t6)

\* the metadata of the cleaned document:
\* {**doc.metadata, 'cleaned': True, 'headlines': []}
clean_metadata(metadata) ==
    [k \in DOMAIN metadata \cup {"cleaned", "headlines"} |->
        IF k = "cleaned" THEN "True"
        ELSE IF k = "headlines" THEN "[]"
        ELSE metadata[k]]

\* TextCleaner.clean_documents
clean_documents(documents, remove_urls, normalize_medical) ==
    [k \in 1..Len(documents) |->
        clean_document(documents[k], remove_urls, normalize_medical,
                       DefaultMinRepetition)]

\* get_document_stats: avg_* are the exact quotients <<numerator, denominator>>
RECURSIVE SumLen(_)
SumLen(texts) == IF texts = << >> THEN 0 ELSE Len(Head(texts)) + SumLen(Tail(texts))

\* len(text.split()): the number of maximal runs of non-whitespace
WordCount(s) ==
    Cardinality({j \in 1..Len(s) :
        s[j] \notin SpaceChars /\ (j = 1 \/ s[j - 1] \in SpaceChars)})

RECURSIVE SumWords(_)
SumWords(texts) ==
    IF texts = << >> THEN 0 ELSE WordCount(Head(texts)) + SumWords(Tail(texts))

get_document_stats(documents) ==
    [num_documents |-> Len(documents),
     total_characters |-> SumLen(documents),
     total_words |-> SumWords(documents),
     avg_chars_per_document |->
         IF documents # << >> THEN << SumLen(documents), Len(documents) >>
         ELSE << 0, 1 >>,
     avg_words_per_document |->
         IF documents # << >> THEN << SumWords(documents), Len(documents) >>
         ELSE << 0, 1 >>]

\* ------------------------------------------------------------------------
\* Configuration: the environment read by load_dotenv() / os.getenv
\* ------------------------------------------------------------------------

\* os.getenv(key) of a key that is not set (None)
Unset == "<unset>"

\* a check that takes only an unset key for missing (`value is None`)
FalsyUnsetOnly(v) == v = Unset

\* `not value`
Falsy(v) == v \in {Unset, ""}

KeyValues == {Unset, "", "k"}

ModelNames == {Unset, "", "m1"}

Azure == << "a", "z", "u", "r", "e" >>

Local == << "l", "o", "c", "a", "l" >>

\* EmbeddingManager.SUPPORTED_PROVIDERS
SUPPORTED_PROVIDERS == << Azure, Local >>

\* EMBEDDING_PROVIDER not set
UnsetProvider == << Unset >>

ProviderValues ==
    { UnsetProvider, Azure, Local,
      << "A", "z", "u", "r", "e" >>,
      << "L", "O", "C", "A", "L" >>,
      << "r", "e", "m", "o", "t", "e" >>,
      << "R", "e", "m", "o", "t", "e" >>,
      << >> }

\* the default of EMBEDDING_MODEL_NAME for the local provider
DefaultLocalModel == "BAAI/bge-large-en-v1.5"

NoEnv ==
    [EMBEDDING_PROVIDER |-> UnsetProvider,
     EMBEDDING_API_KEY |-> Unset,
     EMBEDDING_API_BASE |-> Unset,
     EMBEDDING_MODEL_NAME |-> Unset,
     LLM_API_KEY |-> Unset,
     LLM_API_BASE |-> Unset,
     LLM_MODEL_NAME |-> Unset]

\* An exception: its type, the stage that raised it, the key and the text of
\* its message, and the value the message quotes (<< >> when it quotes none).
Err(type, during, key, text, value) ==
    [type |-> type, during |-> during, key |-> key, text |-> text,
     value |-> value]

NoError == Err("none", "none", "none", "none", << >>)

\* The first key of `required` whose value is unset or empty, "none" if none.
FirstMissing(required, e) ==
    LET missing == {k \in 1..Len(required) : Falsy(e[required[k]])}
    IN  IF missing = {} THEN "none" ELSE required[Min(missing)]

\* ------------------------------------------------------------------------
\* EmbeddingManager
\* ------------------------------------------------------------------------

NoModel == [provider |-> << >>, model_name |-> Unset]

\* os.getenv("EMBEDDING_PROVIDER", "azure").lower()
ProviderOf(e) ==
    Lower(IF e.EMBEDDING_PROVIDER = UnsetProvider THEN Azure
          ELSE e.EMBEDDING_PROVIDER)

\* a manager that does not check the provider
IsSupportedAny(provider) == TRUE

IsSupported(provider) ==
    \E k \in 1..Len(SUPPORTED_PROVIDERS) : SUPPORTED_PROVIDERS[k] = provider

\* the checks of _configure_azure_embeddings, in their order
AzureRequired ==
    << "EMBEDDING_API_KEY", "EMBEDDING_API_BASE", "EMBEDDING_MODEL_NAME" >>

\* _configure_azure_embeddings
ConfigureAzureEmbeddings(e) ==
    IF FirstMissing(AzureRequired, e) # "none"
    THEN [ok |-> FALSE,
          error |-> Err("ValueError", "EmbeddingManager",
                        FirstMissing(AzureRequired, e), "not found in .env",
                        << >>),
          embed_model |-> NoModel]
    ELSE [ok |-> TRUE, error |-> NoError,
          embed_model |-> [provider |-> Azure,
                           model_name |-> e.EMBEDDING_MODEL_NAME]]

\* _configure_local_embeddings
ConfigureLocalEmbeddings(e) ==
    [ok |-> TRUE, error |-> NoError,
     embed_model |->
         [provider |-> Local,
          model_name |-> IF e.EMBEDDING_MODEL_NAME = Unset
                         THEN DefaultLocalModel
                         ELSE e.EMBEDDING_MODEL_NAME]]

\* EmbeddingManager.__init__: what it raises or the model it configures
EmbeddingManager(e) ==
    IF ~IsSupported(ProviderOf(e))
    THEN [ok |-> FALSE,
          error |-> Err("ValueError", "EmbeddingManager",
                        "EMBEDDING_PROVIDER", "must be one of", ProviderOf(e)),
          embed_model |-> NoModel]
    ELSE IF ProviderOf(e) = Azure THEN ConfigureAzureEmbeddings(e)
    ELSE ConfigureLocalEmbeddings(e)

\* ------------------------------------------------------------------------
\* LlmManager
\* ------------------------------------------------------------------------

NoLlm == [model |-> Unset]

\* the checks of LlmManager.__init__, in their order
LlmRequired == << "LLM_API_KEY", "LLM_API_BASE", "LLM_MODEL_NAME" >>

\* LlmManager.__init__: what it raises or the LLM it configures
LlmManager(e) ==
    IF FirstMissing(LlmRequired, e) # "none"
    THEN [ok |-> FALSE,
          error |-> Err("ValueError", "LlmManager",
                        FirstMissing(LlmRequired, e), "not found in .env",
                        << >>),
          llm |-> NoLlm]
    ELSE [ok |-> TRUE, error |-> NoError,
          llm |-> [model |-> e.LLM_MODEL_NAME]]

\* A constructor that ran: its class, whether it returned (ok) or raised,
\* and the values it had for the process-wide settings.
Construction(class, ok, embed_model, llm, chunk) ==
    [class |-> class, ok |-> ok, embed_model |-> embed_model, llm |-> llm,
     chunk |-> chunk]

\* ------------------------------------------------------------------------
\* State
\* ------------------------------------------------------------------------

VARIABLES
    corpus,     \* the documents under input_path: a sequence of texts
    store,      \* the persist location (persist_dir) on disk
    entry,      \* the program that is running: "cli", "script", "app", "none"
    pc,         \* where the running program is
    env,        \* the configuration values the constructor at hand has read
    settings,   \* llama_index Settings: process-wide embed_model, llm, chunk
    embedder,   \* the EmbedderRag object
    index,      \* EmbedderRag.index
    documents,  \* the local `documents` of build_or_load_index
    stages,     \* the stages the current build_or_load_index has started
    branch,     \* the branch the current build_or_load_index took
    atEntry,    \* the persist location as build_or_load_index found it
    question,   \* the question being answered
    retrieved,  \* the passages the retrieval step of that question produced
    shown,      \* the passages displayed to the user for that question
    entered,    \* the inputs read at the prompt, in their order
    queried,    \* the questions query_engine.query was called with, in order
    printed,    \* the last thing the program reported
    error       \* the exception that ended the program

\* the state of the text-cleaning runs
VARIABLES cText, cMeta, cOpts, cSteps, cOut, cMetaOut, cAgain, cpc

pvars ==
    << corpus, store, entry, pc, env, settings, embedder, index, documents,
       stages, branch, atEntry, question, entered, queried, retrieved, shown,
       printed, error >>

\* the state of the display of a response's sources
VARIABLES sNodes, sShown, spc

\* what the process and the chat session have been through
VARIABLES
    constructions,  \* the manager constructors run in the process, in order
    messages        \* st.session_state.messages of the chat session

cvars == << cText, cMeta, cOpts, cSteps, cOut, cMetaOut, cAgain, cpc >>

svars == << sNodes, sShown, spc >>

hvars == << constructions, messages >>

vars == << pvars, cvars, svars, hvars >>

\* ------------------------------------------------------------------------
\* Inputs
\* ------------------------------------------------------------------------

\* the number of files StorageContext.persist writes into persist_dir
StoreFiles == 3

\* chunk_size: int = 800, chunk_overlap: int = 100
DefaultChunkSize == 800

DefaultChunkOverlap == 100

\* similarity_top_k=5
SimilarityTopK == 5

TEmpty == << >>

TPlain == << "a" >>

TDirty == << " ", "a", "-", "\n", "b", " " >>

\* what the documents directory may hold
Corpora == { << >>, << TEmpty >>, << TDirty >>, << TPlain, TDirty >> }

DefaultArgs ==
    [chunk_size |-> DefaultChunkSize, chunk_overlap |-> DefaultChunkOverlap,
     clean_text |-> TRUE, remove_urls |-> TRUE, normalize_medical |-> FALSE]

\* the arguments a client of EmbedderRag may construct it with
ScriptArgs ==
    { DefaultArgs,
      [DefaultArgs EXCEPT !.clean_text = FALSE],
      [DefaultArgs EXCEPT !.remove_urls = FALSE, !.normalize_medical = TRUE],
      [DefaultArgs EXCEPT !.chunk_overlap = DefaultChunkSize],
      [DefaultArgs EXCEPT !.chunk_size = DefaultChunkOverlap,
                          !.chunk_overlap = DefaultChunkSize] }

\* main.py and app.py construct EmbedderRag(input_path="./documents")
ArgsOf(e) == IF e = "script" THEN ScriptArgs ELSE {DefaultArgs}

Exit == << "e", "x", "i", "t" >>

\* what the user may type at the prompt
Questions ==
    { Exit, << " ", "E", "x", "i", "t", " " >>, << >>, << " ", "\t" >>,
      << "q" >>, << "e", "x", "i", "t", "?" >> }

\* ------------------------------------------------------------------------
\* Initial state
\* ------------------------------------------------------------------------

AbsentStore ==
    [exists |-> FALSE, files |-> 0, model |-> NoModel, docs |-> << >>,
     source |-> << >>]

FreshSettings == [embed_model |-> NoModel, llm |-> NoLlm, chunk |-> << >>]

NoEmbedder ==
    [constructed |-> FALSE, clean_text |-> FALSE, remove_urls |-> FALSE,
     normalize_medical |-> FALSE, provider |-> << >>]

NoIndex == [present |-> FALSE, model |-> NoModel, docs |-> << >>]

\* `"messages" not in st.session_state`
NoMessages == [present |-> FALSE, list |-> << >>]

\* the memory of a process that has not run a statement yet
FreshProcess ==
    /\ env = NoEnv
    /\ settings = FreshSettings
    /\ embedder = NoEmbedder
    /\ index = NoIndex
    /\ documents = << >>
    /\ stages = << >>
    /\ branch = "none"
    /\ atEntry = AbsentStore
    /\ question = << >>
    /\ entered = << >>
    /\ queried = << >>
    /\ retrieved = << >>
    /\ shown = << >>
    /\ printed = "none"
    /\ error = NoError
    /\ constructions = << >>
    /\ messages = NoMessages

\* a document without metadata
NoMeta == << >>

\* no step of clean_document has run
NoSteps ==
    [special |-> << >>, hyphen |-> << >>, pages |-> << >>, headers |-> << >>]

CleanerIdle ==
    /\ cText = << >>
    /\ cMeta = NoMeta
    /\ cMetaOut = NoMeta
    /\ cOpts = [remove_urls |-> TRUE, normalize_medical |-> FALSE,
                min_repetition |-> DefaultMinRepetition]
    /\ cSteps = NoSteps
    /\ cOut = << >>
    /\ cAgain = << >>
    /\ cpc = "off"

SourcesIdle ==
    /\ sNodes = << >>
    /\ sShown = << >>
    /\ spc = "off"

Init ==
    /\ corpus \in Corpora
    /\ store = AbsentStore
    /\ entry = "none"
    /\ pc = "idle"
    /\ FreshProcess
    /\ CleanerIdle
    /\ SourcesIdle

\* ------------------------------------------------------------------------
\* Processes: start, end, and how an exception ends them
\* ------------------------------------------------------------------------

\* A new interpreter: nothing is configured, nothing is built.
ResetProcess ==
    /\ env' = NoEnv
    /\ settings' = FreshSettings
    /\ embedder' = NoEmbedder
    /\ index' = NoIndex
    /\ documents' = << >>
    /\ stages' = << >>
    /\ branch' = "none"
    /\ atEntry' = AbsentStore
    /\ question' = << >>
    /\ entered' = << >>
    /\ queried' = << >>
    /\ retrieved' = << >>
    /\ shown' = << >>
    /\ printed' = "none"
    /\ error' = NoError
    /\ constructions' = << >>
    /\ messages' = NoMessages

\* python main.py
StartCli ==
    /\ pc = "idle"
    /\ entry' = "cli"
    /\ pc' = "llm_env"
    /\ ResetProcess
    /\ UNCHANGED << corpus, store, cvars, svars >>

\* a client of the class: EmbedderRag(...).build_or_load_index()
StartScript ==
    /\ pc = "idle"
    /\ entry' = "script"
    /\ pc' = "emb_env"
    /\ ResetProcess
    /\ UNCHANGED << corpus, store, cvars, svars >>

\* An uncaught exception, or one caught by main()'s `except Exception`, which
\* reports it and returns: either way the program is over.
Raise(e) ==
    /\ pc' = "exited"
    /\ error' = e
    /\ printed' = IF entry = "cli" THEN "critical error" ELSE "traceback"

\* The operating system reclaims a program that has ended.
ProcessEnds ==
    /\ pc = "exited"
    /\ pc' = "idle"
    /\ entry' = "none"
    /\ ResetProcess
    /\ UNCHANGED << corpus, store, cvars, svars >>

\* streamlit run app.py: main() reads config['llm_model'] for the sidebar
\* before the assignment `query_engine, config = initialize_rag()` (config
\* is a local of main), so every run of main() ends there.
AppMain ==
    /\ pc = "idle"
    /\ entry' = "app"
    /\ pc' = "exited"
    /\ error' = Err("UnboundLocalError", "sidebar", "config",
                    "referenced before assignment", << >>)
    /\ printed' = "traceback"
    /\ UNCHANGED << corpus, store, env, settings, embedder, index, documents,
                    stages, branch, atEntry, question, entered, queried, retrieved, shown,
                    cvars, svars, hvars >>

\* ------------------------------------------------------------------------
\* LlmManager() and EmbedderRag(...)
\* ------------------------------------------------------------------------

\* LlmManager.__init__: load_dotenv() and the three os.getenv
LlmLoadEnv ==
    /\ pc = "llm_env"
    /\ \E k \in KeyValues, b \in KeyValues, m \in ModelNames :
           env' = [NoEnv EXCEPT !.LLM_API_KEY = k, !.LLM_API_BASE = b,
                                !.LLM_MODEL_NAME = m]
    /\ pc' = "llm_init"
    /\ UNCHANGED << corpus, store, entry, settings, embedder, index,
                    documents, stages, branch, atEntry, question, entered, queried, retrieved,
                    shown, printed, error, cvars, svars, hvars >>

\* LlmManager.__init__: the checks, the client, Settings.llm
LlmManagerInit ==
    /\ pc = "llm_init"
    /\ constructions' =
           Append(constructions,
                  Construction("LlmManager", LlmManager(env).ok, NoModel,
                               LlmManager(env).llm, << >>))
    /\ IF LlmManager(env).ok
       THEN /\ settings' = [settings EXCEPT !.llm = LlmManager(env).llm]
            /\ env' = NoEnv
            /\ pc' = "emb_env"
            /\ UNCHANGED << printed, error >>
       ELSE /\ Raise(LlmManager(env).error)
            /\ UNCHANGED << settings, env >>
    /\ UNCHANGED << corpus, store, entry, embedder, index, documents, stages,
                    branch, atEntry, question, entered, queried, retrieved, shown,
                    messages, cvars, svars >>

\* EmbeddingManager.__init__: load_dotenv() and the os.getenv
EmbLoadEnv ==
    /\ pc = "emb_env"
    /\ \E p \in ProviderValues, k \in KeyValues, b \in KeyValues,
          m \in ModelNames :
           env' = [NoEnv EXCEPT !.EMBEDDING_PROVIDER = p,
                                !.EMBEDDING_API_KEY = k,
                                !.EMBEDDING_API_BASE = b,
                                !.EMBEDDING_MODEL_NAME = m]
    /\ pc' = "emb_init"
    /\ UNCHANGED << corpus, store, entry, settings, embedder, index,
                    documents, stages, branch, atEntry, question, entered, queried, retrieved,
                    shown, printed, error, cvars, svars, hvars >>

\* EmbedderRag.__init__: EmbeddingManager(), then Settings.chunk_size and
\* Settings.chunk_overlap
EmbedderRagInit ==
    /\ pc = "emb_init"
    /\ IF EmbeddingManager(env).ok
       THEN /\ \E a \in ArgsOf(entry) :
                   /\ settings' =
                          [settings EXCEPT
                              !.embed_model = EmbeddingManager(env).embed_model,
                              !.chunk = << a.chunk_size, a.chunk_overlap >>]
                   /\ embedder' =
                          [constructed |-> TRUE,
                           clean_text |-> a.clean_text,
                           remove_urls |-> a.remove_urls,
                           normalize_medical |-> a.normalize_medical,
                           provider |-> ProviderOf(env)]
                   /\ constructions' =
                          Append(constructions,
                                 Construction("EmbedderRag", TRUE,
                                     EmbeddingManager(env).embed_model, NoLlm,
                                     << a.chunk_size, a.chunk_overlap >>))
            /\ env' = NoEnv
            /\ pc' = "build_or_load_index"
            /\ UNCHANGED << printed, error >>
       ELSE /\ Raise(EmbeddingManager(env).error)
            /\ constructions' =
                   Append(constructions,
                          Construction("EmbedderRag", FALSE, NoModel, NoLlm,
                                       << >>))
            /\ UNCHANGED << settings, embedder, env >>
    /\ UNCHANGED << corpus, store, entry, index, documents, stages, branch,
                    atEntry, question, entered, queried, retrieved, shown,
                    messages, cvars, svars >>

\* ------------------------------------------------------------------------
\* EmbedderRag.build_or_load_index
\* ------------------------------------------------------------------------

\* a loader that rebuilds when the source documents have changed
IndexPresentAndFresh == store.exists /\ store.source = corpus

\* os.path.exists(self.persist_dir)
IndexPresent == store.exists

\* a builder that cleans whatever clean_text says
AfterLoadAlwaysClean == "clean"

\* the stage that follows the loading of the documents
AfterLoad == IF embedder.clean_text THEN "clean" ELSE "build"

\* `if not os.path.exists(self.persist_dir):`
BuildOrLoadEnter ==
    /\ pc = "build_or_load_index"
    /\ atEntry' = store
    /\ stages' = << >>
    /\ IF ~IndexPresent
       THEN branch' = "build" /\ pc' = "load_docs"
       ELSE branch' = "load" /\ pc' = "load_index"
    /\ UNCHANGED << corpus, store, entry, env, settings, embedder, index,
                    documents, question, entered, queried, retrieved, shown, printed, error,
                    cvars, svars, hvars >>

\* SimpleDirectoryReader(...).load_data(): the reader raises when it finds no
\* file, and reading may fail
LoadDocuments ==
    /\ pc = "load_docs"
    /\ stages' = Append(stages, "load_docs")
    /\ \E ok \in BOOLEAN :
           IF ok /\ corpus # << >>
           THEN /\ documents' = corpus
                /\ pc' = AfterLoad
                /\ UNCHANGED << printed, error >>
           ELSE /\ Raise(Err("ValueError", "load_docs", "input_path",
                             "no readable file", << >>))
                /\ UNCHANGED documents
    /\ UNCHANGED << corpus, store, entry, env, settings, embedder, index,
                    branch, atEntry, question, entered, queried, retrieved, shown, cvars, svars, hvars >>

\* `if self.clean_text:` statistics, clean_documents, statistics, reduction
CleanDocuments ==
    /\ pc = "clean"
    /\ stages' = Append(stages, "clean")
    /\ documents' = clean_documents(documents, embedder.remove_urls,
                                    embedder.normalize_medical)
    /\ IF get_document_stats(documents).total_characters = 0
       THEN Raise(Err("ZeroDivisionError", "clean", "total_characters",
                      "division by zero", << >>))
       ELSE pc' = "build" /\ UNCHANGED << printed, error >>
    /\ UNCHANGED << corpus, store, entry, env, settings, embedder, index,
                    branch, atEntry, question, entered, queried, retrieved, shown, cvars, svars, hvars >>

\* VectorStoreIndex.from_documents: embeds with Settings.embed_model; the
\* embedding provider may fail
BuildIndex ==
    /\ pc = "build"
    /\ stages' = Append(stages, "build")
    /\ \E ok \in BOOLEAN :
           IF ok
           THEN /\ index' = [present |-> TRUE,
                             model |-> settings.embed_model,
                             docs |-> documents]
                /\ pc' = "persist"
                /\ UNCHANGED << printed, error >>
           ELSE /\ Raise(Err("Exception", "build", "embed_model",
                             "embedding failed", << >>))
                /\ UNCHANGED index
    /\ UNCHANGED << corpus, store, entry, env, settings, embedder, documents,
                    branch, atEntry, question, entered, queried, retrieved, shown, cvars, svars, hvars >>

\* storage_context.persist(persist_dir=...): the directory is created at
\* the final location...
PersistBegin ==
    /\ pc = "persist"
    /\ stages' = Append(stages, "persist")
    /\ store' = [exists |-> TRUE, files |-> 0, model |-> index.model,
                 docs |-> index.docs, source |-> corpus]
    /\ pc' = "persisting"
    /\ UNCHANGED << corpus, entry, env, settings, embedder, index, documents,
                    branch, atEntry, question, entered, queried, retrieved, shown, printed,
                    error, cvars, svars, hvars >>

\* ... and the stores are written into it, one file after the other
PersistWrite ==
    /\ pc = "persisting"
    /\ store.files < StoreFiles
    /\ store' = [store EXCEPT !.files = @ + 1]
    /\ pc' = IF store.files + 1 = StoreFiles THEN "ready" ELSE "persisting"
    /\ UNCHANGED << corpus, entry, env, settings, embedder, index, documents,
                    stages, branch, atEntry, question, entered, queried, retrieved, shown,
                    printed, error, cvars, svars, hvars >>

\* The process is killed (or the machine stops) while persist is writing:
\* what is on disk stays as it is.
CrashDuringPersist ==
    /\ pc = "persisting"
    /\ pc' = "idle"
    /\ entry' = "none"
    /\ ResetProcess
    /\ UNCHANGED << corpus, store, cvars, svars >>

\* StorageContext.from_defaults(persist_dir) and load_index_from_storage:
\* the stores are read back as written; a missing store file raises
LoadIndex ==
    /\ pc = "load_index"
    /\ stages' = Append(stages, "load_index")
    /\ IF store.files = StoreFiles
       THEN /\ index' = [present |-> TRUE, model |-> store.model,
                         docs |-> store.docs]
            /\ pc' = "ready"
            /\ UNCHANGED << printed, error >>
       ELSE /\ Raise(Err("FileNotFoundError", "load_index", "persist_dir",
                         "store file missing", << >>))
            /\ UNCHANGED index
    /\ UNCHANGED << corpus, store, entry, env, settings, embedder, documents,
                    branch, atEntry, question, entered, queried, retrieved, shown, cvars, svars, hvars >>

\* ------------------------------------------------------------------------
\* main.py: the query engine and the question loop
\* ------------------------------------------------------------------------

\* index.as_query_engine(similarity_top_k=5, response_mode="compact") in
\* main(); the client script has its index and returns
BuildOrLoadReturns ==
    /\ pc = "ready"
    /\ IF entry = "cli"
       THEN pc' = "prompt" /\ UNCHANGED printed
       ELSE pc' = "exited" /\ printed' = "done"
    /\ UNCHANGED << corpus, store, entry, env, settings, embedder, index,
                    documents, stages, branch, atEntry, question, entered, queried, retrieved,
                    shown, error, cvars, svars, hvars >>

\* the most inputs read at the prompt in one run
MaxInputs == 3

\* a loop that compares the input as typed (`question == 'exit'`,
\* `not question`)
InputKindAsTyped(q) ==
    IF q = Exit THEN "exit" ELSE IF q = << >> THEN "blank" ELSE "question"

\* `question.lower().strip() == 'exit'`, then `not question.strip()`
InputKind(q) ==
    IF Strip(Lower(q)) = Exit THEN "exit"
    ELSE IF Strip(q) = << >> THEN "blank"
    ELSE "question"

\* question = input(...); 'exit' ends the loop, a blank line is skipped
ReadQuestion ==
    /\ pc = "prompt"
    /\ Len(entered) < MaxInputs
    /\ \E q \in Questions :
           /\ entered' = Append(entered, q)
           /\ IF InputKind(q) = "exit"
              THEN /\ printed' = "Au revoir"
                   /\ pc' = "exited"
                   /\ UNCHANGED << question, retrieved, shown >>
              ELSE IF InputKind(q) = "blank"
              THEN UNCHANGED << pc, printed, question, retrieved, shown >>
              ELSE /\ question' = q
                   /\ retrieved' = << >>
                   /\ shown' = << >>
                   /\ printed' = "Generation"
                   /\ pc' = "retrieve"
    /\ UNCHANGED << corpus, store, entry, env, settings, embedder, index,
                    documents, stages, branch, atEntry, queried, error, cvars,
                    svars, hvars >>

\* `except KeyboardInterrupt:` at the prompt
KeyboardInterrupt ==
    /\ pc = "prompt"
    /\ printed' = "Au revoir"
    /\ pc' = "exited"
    /\ UNCHANGED << corpus, store, entry, env, settings, embedder, index,
                    documents, stages, branch, atEntry, question, entered, queried, retrieved,
                    shown, error, cvars, svars, hvars >>

\* the passages a query gets: at most top_k of the index's entries (one entry
\* per document here; the engine's ranking is the library's)
TopK(docs, k) == SubSeq(docs, 1, IF Len(docs) < k THEN Len(docs) ELSE k)

\* query_engine.query(question), first half: the question is embedded with
\* Settings.embed_model and the index is searched; either may fail
Retrieve ==
    /\ pc = "retrieve"
    /\ queried' = Append(queried, question)
    /\ \E ok \in BOOLEAN :
           IF ok
           THEN /\ retrieved' = TopK(index.docs, SimilarityTopK)
                /\ pc' = "synthesize"
                /\ UNCHANGED << printed, error >>
           ELSE /\ Raise(Err("Exception", "retrieve", "embed_model",
                             "retrieval failed", << >>))
                /\ UNCHANGED retrieved
    /\ UNCHANGED << corpus, store, entry, env, settings, embedder, index,
                    documents, stages, branch, atEntry, question, entered,
                    shown, cvars, svars, hvars >>

\* query_engine.query(question), second half: Settings.llm writes the answer
\* from the passages, or fails; main() prints str(response) and nothing else
Synthesize ==
    /\ pc = "synthesize"
    /\ \E ok \in BOOLEAN :
           IF ok
           THEN /\ printed' = "Reponse"
                /\ pc' = "prompt"
                /\ UNCHANGED error
           ELSE Raise(Err("Exception", "synthesize", "llm",
                          "synthesis failed", << >>))
    /\ UNCHANGED << corpus, store, entry, env, settings, embedder, index,
                    documents, stages, branch, atEntry, question, entered, queried, retrieved,
                    shown, cvars, svars, hvars >>

\* ------------------------------------------------------------------------
\* The environment, between two runs
\* ------------------------------------------------------------------------

\* the source documents change
ChangeCorpus ==
    /\ pc = "idle"
    /\ \E c \in Corpora \ {corpus} : corpus' = c
    /\ UNCHANGED << store, entry, pc, env, settings, embedder, index,
                    documents, stages, branch, atEntry, question, entered, queried, retrieved,
                    shown, printed, error, cvars, svars, hvars >>

\* the persisted location is cleared by hand
ClearStorage ==
    /\ pc = "idle"
    /\ store.exists
    /\ store' = AbsentStore
    /\ UNCHANGED << corpus, entry, pc, env, settings, embedder, index,
                    documents, stages, branch, atEntry, question, entered, queried, retrieved,
                    shown, printed, error, cvars, svars, hvars >>

Next ==
    \/ StartCli
    \/ StartScript
    \/ AppMain
    \/ ProcessEnds
    \/ LlmLoadEnv
    \/ LlmManagerInit
    \/ EmbLoadEnv
    \/ EmbedderRagInit
    \/ BuildOrLoadEnter
    \/ LoadDocuments
    \/ CleanDocuments
    \/ BuildIndex
    \/ PersistBegin
    \/ PersistWrite
    \/ CrashDuringPersist
    \/ LoadIndex
    \/ BuildOrLoadReturns
    \/ ReadQuestion
    \/ KeyboardInterrupt
    \/ Retrieve
    \/ Synthesize
    \/ ChangeCorpus
    \/ ClearStorage

Spec == Init /\ [][Next]_vars

\* ------------------------------------------------------------------------
\* The text cleaner on its own: clean a document, then clean the result
\* ------------------------------------------------------------------------

\* the longest input, in pieces
MaxPieces == 3

CleanPieces ==
    { << "a" >>, << "a", "-", "\n" >>, << "\n" >>, << " " >>, << "hellip" >>,
      << "1" >>, << "d", "T", "1" >>,
      << "h", "t", "t", "p", ":", "/", "/", "a" >> }

RECURSIVE PieceTexts(_)
PieceTexts(n) ==
    IF n = 0 THEN { << >> }
    ELSE PieceTexts(n - 1) \cup
         {t \o p : t \in PieceTexts(n - 1), p \in CleanPieces}

\* the Text Normalizer scenario of the specification
ScenarioText ==
    << "D", "T", "1", " ", "e", "t", " ", "D", "T", "2", " ", "s", "o", "n",
       "t", " ", "s", "u", "i", "v", "i", "s", " ", "p", "a", "r", " ", "H",
       "b", "A", "1", "c", " ", "e", "t", " ", "I", "M", "C", ".", " ", "V",
       "i", "s", "i", "t", "e", "z", " ", "h", "t", "t", "p", ":", "/", "/",
       "e", "x", "a", "m", "p", "l", "e", ".", "c", "o", "m", "." >>

\* the longest text made of single characters
MaxWsLen == 6

WsChars == {"a", " ", "\n", "\t"}

RECURSIVE WsTexts(_)
WsTexts(n) ==
    IF n = 0 THEN { << >> }
    ELSE WsTexts(n - 1) \cup {Append(t, c) : t \in WsTexts(n - 1), c \in WsChars}

\* the four abbreviations in other letter cases than the dict's
AbbrevVariants ==
    << << "d", "t", "1" >>, << "D", "t", "2" >>,
       << "H", "B", "A", "1", "C" >>, << "i", "m", "c" >> >>

\* a sentence around a word: "a <word>."
Sentence(word) == << "a", " " >> \o word \o << "." >>

AbbrevTexts == {Sentence(AbbrevVariants[k]) : k \in 1..Len(AbbrevVariants)}

\* a line of n characters
LineOfLen(n) == [i \in 1..n |-> "x"]

\* texts with repeated lines: of 99 and of 100 characters, twice and three
\* times, with and without blanks around them, and in two letter cases
HeaderTexts ==
    UNION { { JoinLines(<< l, << "b" >>, l >>),
              JoinLines(<< l, << "b" >>, << " " >> \o l, l \o << " " >> >>),
              JoinLines(<< l, << "b" >>, l, << "b" >>, l, << "b" >> >>) } :
            l \in {LineOfLen(HeaderMaxLen - 1), LineOfLen(HeaderMaxLen)} }
        \cup { << "a", "\n", "A", "\n", "a", "\n", "a" >> }

CleanInputs ==
    PieceTexts(MaxPieces) \cup WsTexts(MaxWsLen) \cup AbbrevTexts
        \cup HeaderTexts \cup {ScenarioText}

\* a text with whitespace at its start and three newlines in a row
TSpaced == << " ", "a", "\n", "\n", "\n", "a" >>

\* the metadata SimpleDirectoryReader gives a document
FileMeta == "file_name" :> "a.pdf"

\* metadata a caller of clean_document may pass: of a file, of a document that
\* was cleaned before, and with keys clean_document sets itself
MetaInputs ==
    { NoMeta,
      FileMeta,
      FileMeta @@ ("cleaned" :> "True") @@ ("headlines" :> "[]"),
      FileMeta @@ ("cleaned" :> "False"),
      FileMeta @@ ("headlines" :> "['Intro']") }

CleanOptions ==
    [remove_urls : BOOLEAN, normalize_medical : BOOLEAN,
     min_repetition : {2, DefaultMinRepetition}]

PipelineOff ==
    /\ corpus = << >>
    /\ store = AbsentStore
    /\ entry = "none"
    /\ pc = "off"
    /\ FreshProcess

InitClean ==
    /\ PipelineOff
    /\ SourcesIdle
    /\ \/ cText \in CleanInputs /\ cMeta = FileMeta
       \/ cText \in {TPlain, TSpaced} /\ cMeta \in MetaInputs
    /\ cOpts \in CleanOptions
    /\ cSteps = NoSteps
    /\ cOut = << >>
    /\ cMetaOut = NoMeta
    /\ cAgain = << >>
    /\ cpc = "input"

\* TextCleaner.clean_document(doc, remove_urls, normalize_medical)
CleanOnce ==
    /\ cpc = "input"
    /\ cSteps' = CleanSteps(cText, cOpts.min_repetition)
    /\ cOut' = clean_document(cText, cOpts.remove_urls,
                              cOpts.normalize_medical, cOpts.min_repetition)
    /\ cMetaOut' = clean_metadata(cMeta)
    /\ cpc' = "cleaned"
    /\ UNCHANGED << cText, cMeta, cOpts, cAgain, pvars, svars, hvars >>

\* TextCleaner.clean_document applied to the cleaned document
CleanAgain ==
    /\ cpc = "cleaned"
    /\ cAgain' = clean_document(cOut, cOpts.remove_urls,
                                cOpts.normalize_medical, cOpts.min_repetition)
    /\ cMetaOut' = clean_metadata(cMetaOut)
    /\ cpc' = "recleaned"
    /\ UNCHANGED << cText, cMeta, cOpts, cSteps, cOut, pvars, svars, hvars >>

NextClean == CleanOnce \/ CleanAgain

SpecClean == InitClean /\ [][NextClean]_vars

\* ------------------------------------------------------------------------
\* The sources of a response as app.py displays them
\* ------------------------------------------------------------------------

\* node.text[:300]
ExcerptLen == 300

\* the most source nodes of a response
MaxNodes == 2

\* a passage of n characters
TextOfLen(n) == [i \in 1..n |-> "x"]

\* the passages of a response: text, score in ten-thousandths, file name
SourceNodes ==
    [text : {TextOfLen(n) : n \in {1, ExcerptLen - 1, ExcerptLen, ExcerptLen + 1}},
     score : {8123, 8127},
     file_name : {"a.pdf", "b.pdf"}]

RECURSIVE NodeLists(_)
NodeLists(n) ==
    IF n = 0 THEN { << >> }
    ELSE NodeLists(n - 1) \cup
         {Append(l, node) : l \in NodeLists(n - 1), node \in SourceNodes}

\* f"{node.score:.3f}": the score in thousandths, rounded to the nearest
ScoreShown(score) == (score + 5) \div 10

\* node.text[:300] + "..." if len(node.text) > 300 else node.text
Excerpt(text) ==
    IF Len(text) > ExcerptLen
    THEN SubSeq(text, 1, ExcerptLen) \o << ".", ".", "." >>
    ELSE text

\* what the expander shows of one node: "Source {idx} (Score: ...)" and the
\* excerpt
SourceEntry(idx, node) ==
    [rank |-> idx, score |-> ScoreShown(node.score),
     excerpt |-> Excerpt(node.text)]

InitSources ==
    /\ PipelineOff
    /\ CleanerIdle
    /\ sNodes \in NodeLists(MaxNodes)
    /\ sShown = << >>
    /\ spc = "response"

\* `for idx, node in enumerate(response.source_nodes, 1):` when the response
\* has source nodes
DisplaySources ==
    /\ spc = "response"
    /\ sShown' = [k \in 1..Len(sNodes) |-> SourceEntry(k, sNodes[k])]
    /\ spc' = "shown"
    /\ UNCHANGED << sNodes, pvars, cvars, hvars >>

NextSources == DisplaySources

SpecSources == InitSources /\ [][NextSources]_vars

\* ------------------------------------------------------------------------
\* The managers on their own: a client process that constructs them in any
\* order and goes on after a constructor raised (test_ragas.py constructs
\* LlmManager() and then EmbeddingManager(); Settings is a module global of
\* llama_index, one per process)
\* ------------------------------------------------------------------------

\* the number of constructors the client runs
MaxConstructions == 3

\* what the three LLM_* keys may hold when LlmManager() runs
ClientLlmEnvs ==
    { [NoEnv EXCEPT !.LLM_API_KEY = k, !.LLM_API_BASE = "k",
                    !.LLM_MODEL_NAME = m] :
      k \in {Unset, "k"}, m \in {"", "m1", "m2"} }

\* what the EMBEDDING_* keys may hold when EmbeddingManager() runs
ClientEmbEnvs ==
    { [NoEnv EXCEPT !.EMBEDDING_PROVIDER = p, !.EMBEDDING_API_KEY = k,
                    !.EMBEDDING_API_BASE = "k", !.EMBEDDING_MODEL_NAME = m] :
      p \in {UnsetProvider, Local, << "r", "e", "m", "o", "t", "e" >>},
      k \in {Unset, "k"}, m \in {Unset, "m1"} }

\* the arguments the client constructs EmbedderRag with
ClientArgs == { DefaultArgs, [DefaultArgs EXCEPT !.chunk_overlap = DefaultChunkSize] }

\* LlmManager.__init__: the three checks raise before `Settings.llm = self.llm`
SetLlm(s, r) == IF r.ok THEN [s EXCEPT !.llm = r.llm] ELSE s

\* a manager that assigns Settings.embed_model whether or not it raises
SetEmbedModelUnchecked(s, r) == [s EXCEPT !.embed_model = r.embed_model]

\* EmbeddingManager.__init__: the provider check and the _configure_* checks
\* raise before `Settings.embed_model = embed_model`
SetEmbedModel(s, r) == IF r.ok THEN [s EXCEPT !.embed_model = r.embed_model] ELSE s

\* EmbedderRag.__init__: Settings.chunk_size and Settings.chunk_overlap are
\* assigned after EmbeddingManager() returned
SetChunk(s, r, a) ==
    IF r.ok THEN [s EXCEPT !.chunk = << a.chunk_size, a.chunk_overlap >>] ELSE s

InitSettings ==
    /\ corpus = << >>
    /\ store = AbsentStore
    /\ entry = "client"
    /\ pc = "client"
    /\ FreshProcess
    /\ CleanerIdle
    /\ SourcesIdle

\* LlmManager(), the whole constructor; `error` is what it raised, if it did
NewLlmManager ==
    /\ pc = "client"
    /\ Len(constructions) < MaxConstructions
    /\ \E e \in ClientLlmEnvs :
           /\ settings' = SetLlm(settings, LlmManager(e))
           /\ error' = LlmManager(e).error
           /\ constructions' =
                  Append(constructions,
                         Construction("LlmManager", LlmManager(e).ok, NoModel,
                                      LlmManager(e).llm, << >>))
    /\ UNCHANGED << corpus, store, entry, pc, env, embedder, index, documents,
                    stages, branch, atEntry, question, entered, queried,
                    retrieved, shown, printed, messages, cvars, svars >>

\* EmbeddingManager(), the whole constructor
NewEmbeddingManager ==
    /\ pc = "client"
    /\ Len(constructions) < MaxConstructions
    /\ \E e \in ClientEmbEnvs :
           /\ settings' = SetEmbedModel(settings, EmbeddingManager(e))
           /\ error' = EmbeddingManager(e).error
           /\ constructions' =
                  Append(constructions,
                         Construction("EmbeddingManager",
                                      EmbeddingManager(e).ok,
                                      EmbeddingManager(e).embed_model, NoLlm,
                                      << >>))
    /\ UNCHANGED << corpus, store, entry, pc, env, embedder, index, documents,
                    stages, branch, atEntry, question, entered, queried,
                    retrieved, shown, printed, messages, cvars, svars >>

\* EmbedderRag(...), the whole constructor: the attributes, EmbeddingManager(),
\* then the two chunk settings
NewEmbedderRag ==
    /\ pc = "client"
    /\ Len(constructions) < MaxConstructions
    /\ \E e \in ClientEmbEnvs, a \in ClientArgs :
           /\ settings' = SetChunk(SetEmbedModel(settings, EmbeddingManager(e)),
                                   EmbeddingManager(e), a)
           /\ error' = EmbeddingManager(e).error
           /\ embedder' =
                  IF EmbeddingManager(e).ok
                  THEN [constructed |-> TRUE,
                        clean_text |-> a.clean_text,
                        remove_urls |-> a.remove_urls,
                        normalize_medical |-> a.normalize_medical,
                        provider |-> ProviderOf(e)]
                  ELSE embedder
           /\ constructions' =
                  Append(constructions,
                         Construction("EmbedderRag", EmbeddingManager(e).ok,
                             EmbeddingManager(e).embed_model, NoLlm,
                             IF EmbeddingManager(e).ok
                             THEN << a.chunk_size, a.chunk_overlap >>
                             ELSE << >>))
    /\ UNCHANGED << corpus, store, entry, pc, env, index, documents, stages,
                    branch, atEntry, question, entered, queried, retrieved,
                    shown, printed, messages, cvars, svars >>

NextSettings == NewLlmManager \/ NewEmbeddingManager \/ NewEmbedderRag

SpecSettings == InitSettings /\ [][NextSettings]_vars

\* ------------------------------------------------------------------------
\* Properties
\* ------------------------------------------------------------------------

IsPrefix(a, b) == Len(a) <= Len(b) /\ a = SubSeq(b, 1, Len(a))

\* the stages of the build path, in the order of the specification
BuildStages(clean_text) ==
    IF clean_text THEN << "load_docs", "clean", "build", "persist" >>
    ELSE << "load_docs", "build", "persist" >>

\* C1: an invocation of build_or_load_index takes the load branch exactly
\* when the persist location exists at its entry, whatever the source
\* documents are.  On the load branch only the load of the index runs (no
\* document is loaded or cleaned, no index is constructed) and the persist
\* location is left as it was found; when the location does not exist the
\* build path runs, starting with the loading of the documents.
C1_BranchOnPersistDirOnly ==
    /\ branch = "load" =>
           /\ atEntry.exists
           /\ \A k \in 1..Len(stages) : stages[k] = "load_index"
           /\ documents = << >>
           /\ store = atEntry
           /\ stages = << >> => pc = "load_index"
    /\ branch = "build" =>
           /\ ~atEntry.exists
           /\ \A k \in 1..Len(stages) : stages[k] # "load_index"
           /\ stages = << >> => pc = "load_docs"
           /\ stages # << >> => stages[1] = "load_docs"

\* C1 happens: an index is loaded although the documents have changed since
\* it was built.
C1_Witness ==
    /\ branch = "load"
    /\ pc = "ready"
    /\ index.present
    /\ atEntry.source # corpus

\* C2: on the build path the stages start in the order load, clean (only
\* when clean_text is set), build, persist; the persist location is written
\* only when every earlier stage has completed without an exception; and
\* when loading, cleaning/statistics or index construction raises, the
\* exception ends build_or_load_index with the persist location untouched
\* and still absent, so that a later invocation finds no index.
C2_PersistOnlyAfterAllStages ==
    /\ branch = "build" => IsPrefix(stages, BuildStages(embedder.clean_text))
    /\ (branch = "build" /\ store # atEntry) =>
           /\ stages = BuildStages(embedder.clean_text)
           /\ error.during \notin {"load_docs", "clean", "build"}
           /\ index.present
    /\ error.during \in {"load_docs", "clean", "build"} =>
           /\ pc = "exited"
           /\ store = atEntry
           /\ ~store.exists
           /\ ~IndexPresent

\* C2 happens: index construction raises after the documents were loaded and
\* cleaned.
C2_Witness ==
    /\ pc = "exited"
    /\ error.during = "build"
    /\ stages = << "load_docs", "clean", "build" >>
    /\ ~store.exists

\* C3: an invocation of build_or_load_index that finds the index present
\* (takes the load branch) finds a completely written index, also after a
\* crash in the middle of an earlier persist.
C3_PresentIndexIsComplete == branch = "load" => atEntry.files = StoreFiles

\* C4: a query is only answered against an index whose vectors were produced
\* by the embedding provider and model that are configured now: an index
\* persisted under another configuration is not returned by the load.
C4_IndexOfConfiguredModel ==
    (pc \in {"ready", "prompt", "retrieve", "synthesize"} /\ index.present)
        => index.model = settings.embed_model

\* C5: when EMBEDDING_PROVIDER (lower-cased, "azure" when unset) is outside
\* the supported set, the construction of EmbedderRag raises a ValueError
\* about EMBEDDING_PROVIDER that quotes the value as the code compared it,
\* and the program ends before any document is read and before any index is
\* built or loaded; nothing is written and no model is configured.
C5_UnsupportedProviderRejected ==
    [][(pc = "emb_init" /\ ProviderOf(env) \notin {Azure, Local}) =>
           /\ pc' = "exited"
           /\ error'.type = "ValueError"
           /\ error'.key = "EMBEDDING_PROVIDER"
           /\ error'.value = Lower(env.EMBEDDING_PROVIDER)
           /\ stages' = << >>
           /\ branch' = "none"
           /\ documents' = << >>
           /\ ~index'.present
           /\ store' = store
           /\ settings' = settings
           /\ ~embedder'.constructed]_vars

\* C5 happens: a construction has failed on a provider that is not one of
\* the supported ones, here one given in mixed case.
C5_Witness ==
    /\ pc = "exited"
    /\ error.key = "EMBEDDING_PROVIDER"
    /\ env.EMBEDDING_PROVIDER = << "R", "e", "m", "o", "t", "e" >>

\* the first of three options that is unset or empty, "none" when all are set
FirstUnsetOrEmpty(n1, v1, n2, v2, n3, v3) ==
    IF v1 \in {Unset, ""} THEN n1
    ELSE IF v2 \in {Unset, ""} THEN n2
    ELSE IF v3 \in {Unset, ""} THEN n3
    ELSE "none"

\* C6: when LLM_API_KEY, LLM_API_BASE or LLM_MODEL_NAME is unset or empty,
\* LlmManager() raises an error naming the first of them that is missing and
\* Settings.llm is not set; when the provider is azure and
\* EMBEDDING_API_KEY, EMBEDDING_API_BASE or EMBEDDING_MODEL_NAME is unset or
\* empty, the construction raises an error naming the first missing one and
\* no embedding model is configured; otherwise the construction succeeds,
\* and with the local provider it succeeds whatever these keys are.
C6_MissingOptionRejected ==
    [][/\ pc = "llm_init" =>
              LET miss == FirstUnsetOrEmpty(
                              "LLM_API_KEY", env.LLM_API_KEY,
                              "LLM_API_BASE", env.LLM_API_BASE,
                              "LLM_MODEL_NAME", env.LLM_MODEL_NAME)
              IN  IF miss # "none"
                  THEN /\ pc' = "exited"
                       /\ error'.type = "ValueError"
                       /\ error'.key = miss
                       /\ settings' = settings
                  ELSE /\ pc' = "emb_env"
                       /\ error' = NoError
                       /\ settings'.llm.model = env.LLM_MODEL_NAME
       /\ (pc = "emb_init" /\ ProviderOf(env) = Azure) =>
              LET miss == FirstUnsetOrEmpty(
                              "EMBEDDING_API_KEY", env.EMBEDDING_API_KEY,
                              "EMBEDDING_API_BASE", env.EMBEDDING_API_BASE,
                              "EMBEDDING_MODEL_NAME", env.EMBEDDING_MODEL_NAME)
              IN  IF miss # "none"
                  THEN /\ pc' = "exited"
                       /\ error'.type = "ValueError"
                       /\ error'.key = miss
                       /\ settings' = settings
                       /\ ~embedder'.constructed
                  ELSE /\ pc' = "build_or_load_index"
                       /\ error' = NoError
                       /\ settings'.embed_model =
                              [provider |-> Azure,
                               model_name |-> env.EMBEDDING_MODEL_NAME]
       /\ (pc = "emb_init" /\ ProviderOf(env) = Local) =>
              /\ pc' = "build_or_load_index"
              /\ error' = NoError
              /\ settings'.embed_model.provider = Local]_vars

\* C6 happens: the azure provider is selected with its key set, its base
\* empty and its model name unset, and the error names the base.
C6_Witness ==
    /\ pc = "exited"
    /\ error.key = "EMBEDDING_API_BASE"
    /\ env.EMBEDDING_API_KEY = "k"
    /\ env.EMBEDDING_API_BASE = ""
    /\ env.EMBEDDING_MODEL_NAME = Unset

\* C7: a constructed EmbedderRag has applied a chunk_overlap below its
\* chunk_size: a chunk_overlap >= chunk_size is rejected by the construction.
C7_OverlapBelowChunkSize ==
    embedder.constructed => settings.chunk[2] < settings.chunk[1]

\* C8: a failure while answering a question does not end the interactive
\* program: after a query raises, the next question is accepted.
C8_QueryFailureRecoverable ==
    error.during \in {"retrieve", "synthesize"} => pc # "exited"

\* C9: when answer synthesis fails for a question whose retrieval produced
\* passages, those passages are displayed to the user.
C9_SourcesShownWhenSynthesisFails ==
    (error.during = "synthesize" /\ retrieved # << >>) => shown = retrieved

\* C10: cleaning the cleaned document again yields the cleaned document.
C10_CleanIdempotent == cpc = "recleaned" => cAgain = cOut

\* C11: with normalize_medical off, the cleaned text is never longer than
\* the text that was cleaned.
C11_CleanedNotLonger ==
    (cpc = "cleaned" /\ ~cOpts.normalize_medical) => Len(cOut) <= Len(cText)

HasTripleNewline(s) ==
    \E i \in 1..(Len(s) - 2) : s[i] = "\n" /\ s[i + 1] = "\n" /\ s[i + 2] = "\n"

\* the text of a cleaned document: no whitespace at either end, no three
\* newlines in a row
CleanTextShape(s) ==
    /\ s # << >> => (s[1] \notin SpaceChars /\ s[Len(s)] \notin SpaceChars)
    /\ ~HasTripleNewline(s)

\* C12 (as stated): the cleaned text has no leading or trailing whitespace
\* and no run of three newlines, and the cleaned metadata holds every key
\* of the original metadata with its original value (the key 'cleaned'
\* apart, whose value the statement fixes) and cleaned = True.
C12_TextShapeAndAllMetadataKept ==
    cpc = "cleaned" =>
        /\ CleanTextShape(cOut)
        /\ \A k \in DOMAIN cMeta \ {"cleaned"} :
               k \in DOMAIN cMetaOut /\ cMetaOut[k] = cMeta[k]
        /\ cMetaOut["cleaned"] = "True"

\* C12 (amended): the cleaned text has no leading or trailing whitespace and
\* no run of three newlines; the cleaned metadata holds every key of the
\* original metadata other than 'cleaned' and 'headlines' with its original
\* value, and holds cleaned = True and headlines = [] whatever the original
\* metadata said of these two keys.
C12_TextShapeAndMetadata ==
    cpc = "cleaned" =>
        /\ CleanTextShape(cOut)
        /\ DOMAIN cMetaOut = DOMAIN cMeta \cup {"cleaned", "headlines"}
        /\ \A k \in DOMAIN cMeta \ {"cleaned", "headlines"} :
               cMetaOut[k] = cMeta[k]
        /\ cMetaOut["cleaned"] = "True"
        /\ cMetaOut["headlines"] = "[]"

\* C12 happens: a document that came with headlines, and whose text has
\* whitespace at its start and three newlines in a row between two words,
\* has been cleaned; its file name is kept.
C12_Witness ==
    /\ cpc = "cleaned"
    /\ cText = TSpaced
    /\ cOut = << "a", "\n", "\n", "a" >>
    /\ "headlines" \in DOMAIN cMeta
    /\ cMeta["headlines"] # "[]"
    /\ cMetaOut["file_name"] = "a.pdf"

\* sub occurs in s
Contains(s, sub) ==
    \E i \in 1..(Len(s) - Len(sub) + 1) : SubSeq(s, i, i + Len(sub) - 1) = sub

\* word occurs in s in some letter case with no letter, digit or underscore
\* on either side of it
OccursAsWord(s, word) ==
    \E i \in 1..(Len(s) - Len(word) + 1) :
        /\ \A k \in 1..Len(word) : ToLower(s[i + k - 1]) = ToLower(word[k])
        /\ i = 1 \/ s[i - 1] \notin WordChars
        /\ i + Len(word) > Len(s) \/ s[i + Len(word)] \notin WordChars

\* C13: cleaning "DT1 et DT2 sont suivis par HbA1c et IMC. Visitez
\* http://example.com." with remove_urls and normalize_medical yields a text
\* that contains the four full forms and no "http"; and with
\* normalize_medical every whole-word occurrence of one of the four
\* abbreviations, in any letter case, is expanded: "a <abbreviation>."
\* becomes "a <full form>." and no cleaned text holds an abbreviation as a
\* whole word.
C13_MedicalTermsExpanded ==
    cpc = "cleaned" =>
        /\ (cText = ScenarioText /\ cOpts.remove_urls /\ cOpts.normalize_medical) =>
               /\ Contains(cOut, DiabeteDeType("1"))
               /\ Contains(cOut, DiabeteDeType("2"))
               /\ Contains(cOut, HemoglobineGlyquee)
               /\ Contains(cOut, IndiceDeMasseCorporelle)
               /\ ~Contains(cOut, << "h", "t", "t", "p" >>)
        /\ cOpts.normalize_medical =>
               /\ \A k \in 1..Len(AbbrevVariants) :
                      cText = Sentence(AbbrevVariants[k]) =>
                          cOut = Sentence(MedicalReplacements[k][2])
               /\ \A k \in 1..Len(MedicalReplacements) :
                      ~OccursAsWord(cOut, MedicalReplacements[k][1])

\* C13 happens: the scenario's document has been cleaned with both options.
C13_Witness ==
    /\ cpc = "cleaned"
    /\ cText = ScenarioText
    /\ cOpts.remove_urls
    /\ cOpts.normalize_medical
    /\ Contains(cOut, HemoglobineGlyquee)

\* C14: no run ends on a division error of the reduction percentage: a
\* build whose loaded documents hold no character computes no quotient and
\* goes on to the construction of the index.
C14_ZeroBaselineNoDivisionError == error.type # "ZeroDivisionError"

\* C15: the sources shown for a response are its source nodes in result
\* order, ranked from 1, each with its score (to three decimals), the name
\* of its source file, and an excerpt that is the passage when it has at
\* most 300 characters and its first 300 characters followed by "..."
\* otherwise.
C15_SourcesShownInFull ==
    spc = "shown" =>
        /\ Len(sShown) = Len(sNodes)
        /\ \A k \in 1..Len(sShown) :
               /\ sShown[k].rank = k
               /\ sShown[k].score * 10 - sNodes[k].score \in -5..5
               /\ sShown[k].excerpt =
                      IF Len(sNodes[k].text) <= 300 THEN sNodes[k].text
                      ELSE SubSeq(sNodes[k].text, 1, 300) \o << ".", ".", "." >>
               /\ "source_name" \in DOMAIN sShown[k]
               /\ sShown[k]["source_name"] = sNodes[k].file_name

\* a word character, a hyphen, whitespace with a line break in it, and a
\* word character, starting at i
HyphenBreakAt(s, i) ==
    /\ i + 3 <= Len(s)
    /\ s[i] \in WordChars
    /\ s[i + 1] = "-"
    /\ LET e == RunEnd(s, i + 2, SpaceChars)
       IN  /\ e <= Len(s)
           /\ s[e] \in WordChars
           /\ \E p \in (i + 2)..(e - 1) : s[p] = "\n"

HasHyphenBreak(s) == \E i \in 1..Len(s) : HyphenBreakAt(s, i)

\* C17: the text that leaves the hyphenation step holds no word fragment
\* followed by a hyphen, a line break and a word fragment, and a text that
\* entered the step without such a break leaves it unchanged.
C17_NoHyphenBreakLeft ==
    cpc = "cleaned" =>
        /\ ~HasHyphenBreak(cSteps.hyphen)
        /\ ~HasHyphenBreak(cSteps.special) => cSteps.hyphen = cSteps.special

\* C18: the header/footer step removes exactly the lines whose trimmed
\* content is not empty, is shorter than 100 characters and is the trimmed
\* content of at least min_repetition lines of the text (same letter case);
\* the other lines are kept as they are, in their order.
C18_ExactlyRepeatedShortLinesRemoved ==
    cpc = "cleaned" =>
        LET lines == SplitLines(cSteps.pages)
            Occurrences(l) ==
                Cardinality({j \in 1..Len(lines) : Strip(lines[j]) = Strip(l)})
            IsKept(l) ==
                \/ Strip(l) = << >>
                \/ Len(Strip(l)) >= 100
                \/ Occurrences(l) < cOpts.min_repetition
        IN  cSteps.headers = JoinLines(SelectSeq(lines, IsKept))

\* C18 happens: of a text with a line of 100 characters three times and the
\* line "b" three times, the three long lines are kept and the "b" removed.
C18_Witness ==
    /\ cpc = "cleaned"
    /\ cOpts.min_repetition = 3
    /\ cSteps.pages =
           JoinLines(<< LineOfLen(100), << "b" >>, LineOfLen(100), << "b" >>,
                        LineOfLen(100), << "b" >> >>)
    /\ cSteps.headers =
           JoinLines(<< LineOfLen(100), LineOfLen(100), LineOfLen(100) >>)

\* the input is 'exit' once trimmed and lower-cased
IsExitInput(q) == Strip(Lower(q)) = << "e", "x", "i", "t" >>

\* the input is empty or whitespace only
IsBlankInput(q) == \A k \in 1..Len(q) : q[k] \in SpaceChars

\* the inputs that are questions, in their order
QuestionsAmong(inputs) ==
    LET IsQuestion(q) == ~IsExitInput(q) /\ ~IsBlankInput(q)
    IN  SelectSeq(inputs, IsQuestion)

\* C19: in the CLI the questions the query engine was called with are the
\* entered inputs that are neither blank nor 'exit', once each and in input
\* order; an input is read only when the query of the one before is over
\* (while a question waits for its query, it is the only one that has not
\* been queried); an 'exit' (trimmed, lower-cased) is the last input read,
\* ends the program and is followed by no query.
C19_OneQueryPerQuestion ==
    entry = "cli" =>
        /\ pc # "retrieve" => queried = QuestionsAmong(entered)
        /\ pc = "retrieve" =>
               /\ QuestionsAmong(entered) = Append(queried, question)
               /\ entered[Len(entered)] = question
        /\ \A k \in 1..Len(entered) :
               IsExitInput(entered[k]) => (k = Len(entered) /\ pc = "exited")

\* C19 happens: a blank input, then a question that was answered, then
\* ' Exit ' have been read, and the program has ended.
C19_Witness ==
    /\ entry = "cli"
    /\ pc = "exited"
    /\ entered = << << " ", "\t" >>, << "q" >>, << " ", "E", "x", "i", "t", " " >> >>
    /\ queried = << << "q" >> >>
    /\ printed = "Au revoir"

\* C20: no run of the chat UI's main() reads the configuration before
\* initialize_rag has returned it: no run ends on the read of the unassigned
\* local `config`.
C20_ConfigAssignedBeforeRead ==
    entry = "app" =>
        ~(error.type = "UnboundLocalError" /\ error.key = "config")

\* The last constructor of one of `classes` that returned, 0 when none did.
LastOk(log, classes) ==
    LET ok == {k \in 1..Len(log) : log[k].ok /\ log[k].class \in classes}
    IN  IF ok = {} THEN 0 ELSE Max(ok)

\* C21: after any sequence of LlmManager / EmbeddingManager / EmbedderRag
\* constructions in one process, the process-wide LLM is the one of the last
\* LlmManager that returned, the embed model the one of the last
\* EmbeddingManager or EmbedderRag that returned, and the chunk size and
\* overlap those of the last EmbedderRag that returned (the fresh values when
\* none did): a constructor that raises leaves all of them as they were, and
\* one that returns overwrites its own.
C21_SettingsOfLastSuccess ==
    LET l == LastOk(constructions, {"LlmManager"})
        m == LastOk(constructions, {"EmbeddingManager", "EmbedderRag"})
        c == LastOk(constructions, {"EmbedderRag"})
    IN  /\ settings.llm = IF l = 0 THEN NoLlm ELSE constructions[l].llm
        /\ settings.embed_model =
               IF m = 0 THEN NoModel ELSE constructions[m].embed_model
        /\ settings.chunk = IF c = 0 THEN << >> ELSE constructions[c].chunk

\* an embed model was configured, another one replaced it, and then a
\* constructor of the embedding side raised
C21_Witness ==
    /\ Len(constructions) = 3
    /\ constructions[1].ok /\ constructions[2].ok /\ ~constructions[3].ok
    /\ \A k \in 1..3 : constructions[k].class \in {"EmbeddingManager", "EmbedderRag"}
    /\ constructions[1].embed_model # constructions[2].embed_model
    /\ settings.embed_model = constructions[2].embed_model
    /\ error.type = "ValueError"

\* user, assistant, user, assistant, ...: every prompt has its answer
Alternates(list) ==
    /\ Len(list) % 2 = 0
    /\ \A k \in 1..Len(list) :
           list[k].role = IF k % 2 = 1 THEN "user" ELSE "assistant"

====
